---------------------------- MODULE Spec2Model ----------------------------
(***************************************************************************)
(* A model of deep_pack: the masked-action replay buffers                  *)
(* (common/buffers.py), the CSV metrics callback (common/callbacks.py) and *)
(* the DQN policy (ddqn/policies.py).                                      *)
(*                                                                         *)
(* Data passed to ReplayBuffer.add is labelled: the observation, next      *)
(* observation, action, reward and truth mask given for environment e by   *)
(* the k-th add are the records Label(kind, k, e, key), all distinct, so   *)
(* that a stored or sampled value tells which add, which environment and   *)
(* which field it came from.  done is a free input per environment; the    *)
(* infos list is one of the cyclic arrangements of (key absent, True,      *)
(* False) over the environments.  Arrays allocated by np.zeros hold Zero   *)
(* (labelled arrays) or 0 (numeric arrays).                                *)
(*                                                                         *)
(* The caller is single-threaded and synchronous: it takes the value a     *)
(* call returned (TakeResult) before it makes the next call.               *)
(***************************************************************************)
EXTENDS Integers, Sequences, FiniteSets, TLC

\* ------------------------------------------------------------------ bounds
MaxBufferSize == 3
MaxEnvs == 2
MaxAdds == 3
MaxBatch == 1

VARIABLES
    \* --- replay buffer object
    status,                     \* "none" | "ok" | "ValueError" | "AssertionError"
    cls,                        \* "ReplayBuffer" | "DictReplayBuffer"
    arg_buffer_size,            \* the buffer_size given to the constructor
    buffer_size,                \* self.buffer_size (adjusted)
    n_envs,
    optimize_memory_usage,
    handle_timeout_termination,
    pos,
    full,
    observations,
    next_observations,
    actions,
    rewards,
    dones,
    timeouts,
    truth_masks,
    ret,                        \* what the last call returned or raised
    \* --- history of the calls (not program state)
    nAdds,                      \* number of add calls so far
    log,                        \* inputs of the most recent adds, oldest first
    \* --- a plain ReplayBuffer fed the same adds as the buffer above
    twin,                       \* its fields as one record, or NoTwin
    \* --- metrics callback, its file and the host training loop
    cb_status,                  \* "none" | "ok"
    fs,                         \* the file system: path -> lines on disk
    file_handler,               \* self.file_handler: [path, closed, buffer]
    num_timesteps,              \* self.model.num_timesteps (host)
    cb_ret,                     \* what the last callback event returned or raised
    rollout_log,                \* history: every _on_rollout_end, its metrics and
                                \* whether it found the file closed
    \* --- DQN policy
    pol_status,                 \* "none" | "ok" | "ValueError"
    network_class,              \* self.network_class
    mask_replace_coef,          \* self.mask_replace_coef
    q_net,                      \* self.q_net: a QNetwork, or NoNet
    q_net_target,               \* self.q_net_target: a QNetwork, or NoNet
    optimizer,                  \* self.optimizer: the network it optimizes, or 0
    training,                   \* self.training
    pol_ret                     \* what the last call returned or raised

bufVars == <<status, cls, arg_buffer_size, buffer_size, n_envs,
             optimize_memory_usage, handle_timeout_termination, pos, full,
             observations, next_observations, actions, rewards, dones,
             timeouts, truth_masks, ret, nAdds, log>>

cbVars == <<cb_status, fs, file_handler, num_timesteps, cb_ret, rollout_log>>

polVars == <<pol_status, network_class, mask_replace_coef, q_net, q_net_target,
             optimizer, training, pol_ret>>

pairVars == <<twin>>

vars == <<bufVars, pairVars, cbVars, polVars>>

\* ------------------------------------------------------------------ values
ObsKeys == {"bin", "mask"}          \* keys of the Dict observation space
NoKey == "-"                        \* a plain (non-dict) array
InfoVals == <<"absent", "True", "False">>   \* info["TimeLimit.truncated"], if any

\* the infos list of one add: arrangement c of InfoVals over the environments
InfosOf(c, ne) == [e \in 0 .. (ne - 1) |-> InfoVals[((c + e) % Len(InfoVals)) + 1]]
InfoChoices == 0 .. (Len(InfoVals) - 1)

Label(kind, k, e, key) == [kind |-> kind, k |-> k, e |-> e, key |-> key]
Zero == Label("zero", 0, 0, NoKey)
Unset == [x \in {} |-> 0]           \* an attribute that was never assigned

NoneRet == [kind |-> "none"]
Raise(exc) == [kind |-> "raise", exc |-> exc]

Envs == 0 .. (n_envs - 1)

\* buffers.py:65, 250   self.buffer_size = max(buffer_size // n_envs, 1)
AdjustedBufferSize(bs, ne) == IF bs \div ne > 1 THEN bs \div ne ELSE 1

\* np.zeros((buffer_size, n_envs, ...))
ZerosOf(bs, ne, z) == [s \in 0 .. (bs - 1) |-> [e \in 0 .. (ne - 1) |-> z]]

\* ------------------------------------------------------------ construction
\* an optional boolean argument as the caller gives it
BoolArgs == {"True", "False", "omitted"}
Given(arg, default) == IF arg = "omitted" THEN default ELSE arg = "True"

\* buffers.py:59-60, 244-245: the defaults of the two options
DefaultOptimizeMemoryUsage == FALSE
DefaultHandleTimeoutTermination == TRUE

\* the two options never found incompatible
ReplayBufferRejects_Never(omu, hto) == FALSE

\* ReplayBuffer.__init__ raises when both options are set (buffers.py:73-77)
ReplayBufferRejects(omu, hto) == omu /\ hto

\* the dict buffer applying the plain buffer's test of the two options
DictReplayBufferRejects_BothOptions(omu, hto) == omu /\ hto

\* DictReplayBuffer.__init__ asserts not optimize_memory_usage (buffers.py:256)
DictReplayBufferRejects(omu, hto) == omu

InitObservations(c, bs, ne) ==
    IF c = "DictReplayBuffer"
    THEN [key \in ObsKeys |-> ZerosOf(bs, ne, Zero)]
    ELSE ZerosOf(bs, ne, Zero)

\* next_observations is allocated unless optimize_memory_usage (buffers.py:82-84)
InitNextObservations(c, bs, ne, omu) ==
    IF c = "DictReplayBuffer"
    THEN [key \in ObsKeys |-> ZerosOf(bs, ne, Zero)]
    ELSE IF ~omu THEN ZerosOf(bs, ne, Zero) ELSE Unset

ConstructFails(exc) ==
    /\ status' = exc
    /\ ret' = Raise(exc)
    /\ UNCHANGED <<cls, arg_buffer_size, buffer_size, n_envs,
                   optimize_memory_usage, handle_timeout_termination, pos, full,
                   observations, next_observations, actions, rewards, dones,
                   timeouts, truth_masks, nAdds, log>>

ConstructOk(c, bs, ne, omu, hto) ==
    /\ status' = "ok"
    /\ cls' = c
    /\ arg_buffer_size' = bs
    /\ n_envs' = ne
    /\ buffer_size' = AdjustedBufferSize(bs, ne)
    /\ optimize_memory_usage' = omu
    /\ handle_timeout_termination' = hto
    /\ pos' = 0
    /\ full' = FALSE
    /\ observations' = InitObservations(c, AdjustedBufferSize(bs, ne), ne)
    /\ next_observations' = InitNextObservations(c, AdjustedBufferSize(bs, ne), ne, omu)
    /\ actions' = ZerosOf(AdjustedBufferSize(bs, ne), ne, Zero)
    /\ rewards' = ZerosOf(AdjustedBufferSize(bs, ne), ne, Zero)
    /\ dones' = ZerosOf(AdjustedBufferSize(bs, ne), ne, 0)
    /\ timeouts' = ZerosOf(AdjustedBufferSize(bs, ne), ne, 0)
    /\ truth_masks' = ZerosOf(AdjustedBufferSize(bs, ne), ne, Zero)
    /\ ret' = NoneRet
    /\ UNCHANGED <<nAdds, log>>

\* ReplayBuffer(buffer_size, ..., n_envs, optimize_memory_usage, handle_timeout_termination)
ReplayBufferInit(bs, ne, omu_arg, hto_arg) ==
    /\ status = "none"
    /\ LET omu == Given(omu_arg, DefaultOptimizeMemoryUsage)
           hto == Given(hto_arg, DefaultHandleTimeoutTermination)
       IN IF ReplayBufferRejects(omu, hto)
          THEN ConstructFails("ValueError")
          ELSE ConstructOk("ReplayBuffer", bs, ne, omu, hto)

\* DictReplayBuffer(buffer_size, ..., n_envs, optimize_memory_usage, handle_timeout_termination)
DictReplayBufferInit(bs, ne, omu_arg, hto_arg) ==
    /\ status = "none"
    /\ LET omu == Given(omu_arg, DefaultOptimizeMemoryUsage)
           hto == Given(hto_arg, DefaultHandleTimeoutTermination)
       IN IF DictReplayBufferRejects(omu, hto)
          THEN ConstructFails("AssertionError")
          ELSE ConstructOk("DictReplayBuffer", bs, ne, omu, hto)

\* ---------------------------------------------------------------------- add
\* the wrap one add late
NextPos_WrapLate(p, bs) == IF p = bs THEN 0 ELSE p + 1

\* self.pos += 1; if self.pos == self.buffer_size: self.pos = 0
NextPos(p, bs) == IF p + 1 = bs THEN 0 ELSE p + 1

\* full assigned on every add instead of only set at the wrap
NextFull_Reassigned(p, bs, f) == p + 1 = bs

\* if self.pos == self.buffer_size: self.full = True
NextFull(p, bs, f) == IF p + 1 = bs THEN TRUE ELSE f

\* info.get("TimeLimit.truncated", False) stored in a float32 array
TruncatedOf(info) == IF info = "True" THEN 1 ELSE 0

\* the truncation flags stored whatever handle_timeout_termination says
NextTimeouts_Unconditional(t, p, hto, infos) ==
    [t EXCEPT ![p] = [e \in DOMAIN infos |-> TruncatedOf(infos[e])]]

\* the truncation flags assigned to the whole array instead of to row pos
NextTimeouts_AllSlots(t, p, hto, infos) ==
    IF hto THEN [s \in DOMAIN t |-> [e \in DOMAIN infos |-> TruncatedOf(infos[e])]]
    ELSE t

\* self.timeouts[self.pos] = ... only if handle_timeout_termination
NextTimeouts(t, p, hto, infos) ==
    IF hto THEN [t EXCEPT ![p] = [e \in DOMAIN infos |-> TruncatedOf(infos[e])]]
    ELSE t

\* the labelled arguments of the k-th add
ArgOf(kind, k, key) == [e \in Envs |-> Label(kind, k, e, key)]

\* the observation stored one slot after the write pointer
ReplayObservationsAfterAdd_AtNext(o, p, bs, omu, obs, next_obs) ==
    [o EXCEPT ![(p + 1) % bs] = IF omu THEN next_obs ELSE obs]

\* the next observation appended past the end instead of wrapped
ReplayObservationsAfterAdd_Grows(o, p, bs, omu, obs, next_obs) ==
    IF omu
    THEN [s \in DOMAIN o \cup {p + 1} |->
             IF s = p + 1 THEN next_obs ELSE IF s = p THEN obs ELSE o[s]]
    ELSE [o EXCEPT ![p] = obs]

\* ReplayBuffer.add: observations, and next observations in either layout
ReplayObservationsAfterAdd(o, p, bs, omu, obs, next_obs) ==
    IF omu
    THEN [o EXCEPT ![p] = obs, ![(p + 1) % bs] = next_obs]
    ELSE [o EXCEPT ![p] = obs]

\* the next observation of a non-optimized add never stored
ReplayNextObservationsAfterAdd_Skipped(no, p, omu, next_obs) == no

ReplayNextObservationsAfterAdd(no, p, omu, next_obs) ==
    IF omu THEN no ELSE [no EXCEPT ![p] = next_obs]

\* history: keep the inputs of the last buffer_size adds, each with the slot
\* (self.pos as the call found it) it was written to
Logged(l, bs, entry) ==
    IF Len(l) < bs THEN Append(l, entry) ELSE Append(Tail(l), entry)

AddCommon(k, done, infos) ==
    /\ actions' = [actions EXCEPT ![pos] = ArgOf("action", k, NoKey)]
    /\ rewards' = [rewards EXCEPT ![pos] = ArgOf("reward", k, NoKey)]
    /\ dones' = [dones EXCEPT ![pos] = done]
    /\ timeouts' = NextTimeouts(timeouts, pos, handle_timeout_termination, infos)
    /\ truth_masks' = [truth_masks EXCEPT ![pos] = ArgOf("truth_mask", k, NoKey)]
    /\ pos' = NextPos(pos, buffer_size)
    /\ full' = NextFull(pos, buffer_size, full)
    /\ ret' = NoneRet
    /\ nAdds' = k
    /\ log' = Logged(log, buffer_size, [k |-> k, slot |-> pos, done |-> done, infos |-> infos])
    /\ UNCHANGED <<status, cls, arg_buffer_size, buffer_size, n_envs,
                   optimize_memory_usage, handle_timeout_termination>>

ReplayBufferAdd(done, infos) ==
    /\ status = "ok"
    /\ ret.kind = "none"
    /\ cls = "ReplayBuffer"
    /\ nAdds < MaxAdds
    /\ LET k == nAdds + 1 IN
       /\ observations' = ReplayObservationsAfterAdd(observations, pos, buffer_size,
                              optimize_memory_usage,
                              ArgOf("obs", k, NoKey), ArgOf("next_obs", k, NoKey))
       /\ next_observations' = ReplayNextObservationsAfterAdd(next_observations, pos,
                              optimize_memory_usage, ArgOf("next_obs", k, NoKey))
       /\ AddCommon(k, done, infos)

DictReplayBufferAdd(done, infos) ==
    /\ status = "ok"
    /\ ret.kind = "none"
    /\ ret.kind = "none"
    /\ cls = "DictReplayBuffer"
    /\ nAdds < MaxAdds
    /\ LET k == nAdds + 1 IN
       /\ observations' = [key \in ObsKeys |->
                              [observations[key] EXCEPT ![pos] = ArgOf("obs", k, key)]]
       /\ next_observations' = [key \in ObsKeys |->
                              [next_observations[key] EXCEPT ![pos] = ArgOf("next_obs", k, key)]]
       /\ AddCommon(k, done, infos)

\* ------------------------------------------ a plain buffer beside a dict one
\* no second buffer
NoTwin == [cls |-> "none"]

\* the ReplayBuffer object that ReplayBuffer.__init__ leaves, as one record
ReplayBufferNew(bs, ne, omu, hto) ==
    [cls |-> "ReplayBuffer",
     buffer_size |-> AdjustedBufferSize(bs, ne),
     n_envs |-> ne,
     optimize_memory_usage |-> omu,
     handle_timeout_termination |-> hto,
     pos |-> 0,
     full |-> FALSE,
     observations |-> InitObservations("ReplayBuffer", AdjustedBufferSize(bs, ne), ne),
     next_observations |->
         InitNextObservations("ReplayBuffer", AdjustedBufferSize(bs, ne), ne, omu),
     actions |-> ZerosOf(AdjustedBufferSize(bs, ne), ne, Zero),
     rewards |-> ZerosOf(AdjustedBufferSize(bs, ne), ne, Zero),
     dones |-> ZerosOf(AdjustedBufferSize(bs, ne), ne, 0),
     timeouts |-> ZerosOf(AdjustedBufferSize(bs, ne), ne, 0),
     truth_masks |-> ZerosOf(AdjustedBufferSize(bs, ne), ne, Zero)]

\* ReplayBuffer.add on the object b, statement by statement (buffers.py:134-154)
ReplayBufferAdded(b, k, done, infos) ==
    [b EXCEPT
        !.observations = ReplayObservationsAfterAdd(b.observations, b.pos, b.buffer_size,
                             b.optimize_memory_usage,
                             ArgOf("obs", k, NoKey), ArgOf("next_obs", k, NoKey)),
        !.next_observations = ReplayNextObservationsAfterAdd(b.next_observations, b.pos,
                             b.optimize_memory_usage, ArgOf("next_obs", k, NoKey)),
        !.actions = [b.actions EXCEPT ![b.pos] = ArgOf("action", k, NoKey)],
        !.rewards = [b.rewards EXCEPT ![b.pos] = ArgOf("reward", k, NoKey)],
        !.dones = [b.dones EXCEPT ![b.pos] = done],
        !.timeouts = NextTimeouts(b.timeouts, b.pos, b.handle_timeout_termination, infos),
        !.truth_masks = [b.truth_masks EXCEPT ![b.pos] = ArgOf("truth_mask", k, NoKey)],
        !.pos = NextPos(b.pos, b.buffer_size),
        !.full = NextFull(b.pos, b.buffer_size, b.full)]

\* DictReplayBuffer(...) and ReplayBuffer(...) built with the same buffer_size,
\* n_envs and handle_timeout_termination, the plain one not memory-optimized
PairInit(bs, ne, hto_arg) ==
    /\ twin = NoTwin
    /\ DictReplayBufferInit(bs, ne, "False", hto_arg)
    /\ twin' = ReplayBufferNew(bs, ne, FALSE, Given(hto_arg, DefaultHandleTimeoutTermination))

\* one add given to both buffers: the same action, reward, done, infos and
\* truth mask, and obs[key], next_obs[key] of the dict the plain obs, next_obs
PairAdd(done, infos) ==
    /\ twin # NoTwin
    /\ DictReplayBufferAdd(done, infos)
    /\ twin' = ReplayBufferAdded(twin, nAdds + 1, done, infos)

\* ------------------------------------------------------------------- sample
\* stable_baselines3 BaseBuffer.sample, reached through super().sample:
\* upper_bound = buffer_size if full else pos; randint(0, upper_bound)
BaseSampleInds(p, f, bs) == IF f THEN 0 .. (bs - 1) ELSE 0 .. (p - 1)

\* the range below pos taken as closed when not full
OptimizedSampleInds_IncludesPos(p, f, bs) ==
    IF f THEN {(r + p) % bs : r \in 1 .. (bs - 1)} ELSE 0 .. p

\* the offset drawn from 0 instead of 1
OptimizedSampleInds_FromZero(p, f, bs) ==
    IF f THEN {(r + p) % bs : r \in 0 .. (bs - 1)} ELSE 0 .. (p - 1)

\* ReplayBuffer.sample in memory-optimized mode (buffers.py:172-175)
OptimizedSampleInds(p, f, bs) ==
    IF f THEN {(r + p) % bs : r \in 1 .. (bs - 1)} ELSE 0 .. (p - 1)

\* the memory-optimized branch of sample never taken
SampleInds_AlwaysBase(c, omu, p, f, bs) == BaseSampleInds(p, f, bs)

\* the indices sample can hand to _get_samples
SampleInds(c, omu, p, f, bs) ==
    IF c = "ReplayBuffer" /\ omu
    THEN OptimizedSampleInds(p, f, bs)
    ELSE BaseSampleInds(p, f, bs)

\* the timeouts not taken out
Terminal_KeepsTimeouts(d, t) == d

\* the terminal signal: dones * (1 - timeouts)
Terminal(d, t) == d * (1 - t)

\* the truth mask read from the first environment
ReplaySampleAt_MaskOfEnv0(i, e) ==
    [observations      |-> observations[i][e],
     actions           |-> actions[i][e],
     next_observations |-> IF optimize_memory_usage
                           THEN observations[(i + 1) % buffer_size][e]
                           ELSE next_observations[i][e],
     dones             |-> dones[i][e] * (1 - timeouts[i][e]),
     rewards           |-> rewards[i][e],
     truth_masks       |-> truth_masks[i][0]]

\* ReplayBuffer._get_samples for one batch element
ReplayNextObsAt(i, e) ==
    IF optimize_memory_usage
    THEN observations[(i + 1) % buffer_size][e]
    ELSE next_observations[i][e]

ReplaySampleAt(i, e) ==
    [observations      |-> observations[i][e],
     actions           |-> actions[i][e],
     next_observations |-> ReplayNextObsAt(i, e),
     dones             |-> Terminal(dones[i][e], timeouts[i][e]),
     rewards           |-> rewards[i][e],
     truth_masks       |-> truth_masks[i][e]]

\* DictReplayBuffer._get_samples for one batch element
DictSampleAt(i, e) ==
    [observations      |-> [key \in ObsKeys |-> observations[key][i][e]],
     actions           |-> actions[i][e],
     next_observations |-> [key \in ObsKeys |-> next_observations[key][i][e]],
     dones             |-> Terminal(dones[i][e], timeouts[i][e]),
     rewards           |-> rewards[i][e],
     truth_masks       |-> truth_masks[i][e]]

SampleAt(i, e) == IF cls = "DictReplayBuffer" THEN DictSampleAt(i, e) ELSE ReplaySampleAt(i, e)

Samples(batch_inds, env_indices) ==
    [kind        |-> "samples",
     batch_inds  |-> batch_inds,
     env_indices |-> env_indices,
     data        |-> [j \in DOMAIN batch_inds |-> SampleAt(batch_inds[j], env_indices[j])]]

\* the terminal signal computed in place in self.dones
Sample_TerminalInPlace(batch_size) ==
    /\ status = "ok"
    /\ ret.kind = "none"
    /\ LET inds == SampleInds(cls, optimize_memory_usage, pos, full, buffer_size) IN
       IF inds = {}
       THEN ret' = Raise("ValueError") /\ dones' = dones
       ELSE \E batch_inds \in [1 .. batch_size -> inds] :
            \E env_indices \in [1 .. batch_size -> Envs] :
               /\ ret' = Samples(batch_inds, env_indices)
               /\ dones' = [s \in DOMAIN dones |-> [e \in DOMAIN dones[s] |->
                                IF \E j \in DOMAIN batch_inds :
                                       batch_inds[j] = s /\ env_indices[j] = e
                                THEN Terminal(dones[s][e], timeouts[s][e])
                                ELSE dones[s][e]]]
    /\ UNCHANGED <<status, cls, arg_buffer_size, buffer_size, n_envs,
                   optimize_memory_usage, handle_timeout_termination, pos, full,
                   observations, next_observations, actions, rewards,
                   timeouts, truth_masks, nAdds, log>>

\* sample(batch_size): np.random.randint raises ValueError on an empty range
Sample(batch_size) ==
    /\ status = "ok"
    /\ ret.kind = "none"
    /\ LET inds == SampleInds(cls, optimize_memory_usage, pos, full, buffer_size) IN
       IF inds = {}
       THEN ret' = Raise("ValueError")
       ELSE \E batch_inds \in [1 .. batch_size -> inds] :
            \E env_indices \in [1 .. batch_size -> Envs] :
               ret' = Samples(batch_inds, env_indices)
    /\ UNCHANGED <<status, cls, arg_buffer_size, buffer_size, n_envs,
                   optimize_memory_usage, handle_timeout_termination, pos, full,
                   observations, next_observations, actions, rewards, dones,
                   timeouts, truth_masks, nAdds, log>>

\* the caller takes what sample returned or raised
TakeResult ==
    /\ status = "ok"
    /\ ret.kind # "none"
    /\ ret' = NoneRet
    /\ UNCHANGED <<status, cls, arg_buffer_size, buffer_size, n_envs,
                   optimize_memory_usage, handle_timeout_termination, pos, full,
                   observations, next_observations, actions, rewards, dones,
                   timeouts, truth_masks, nAdds, log>>

\* ------------------------------------------------------------ specification
BufInit ==
    /\ status = "none"
    /\ cls = "none"
    /\ arg_buffer_size = 0
    /\ buffer_size = 0
    /\ n_envs = 0
    /\ optimize_memory_usage = FALSE
    /\ handle_timeout_termination = FALSE
    /\ pos = 0
    /\ full = FALSE
    /\ observations = Unset
    /\ next_observations = Unset
    /\ actions = Unset
    /\ rewards = Unset
    /\ dones = Unset
    /\ timeouts = Unset
    /\ truth_masks = Unset
    /\ ret = NoneRet
    /\ nAdds = 0
    /\ log = <<>>
    /\ twin = NoTwin

\* ===================================================== MetricsCallback
MaxSteps == 2
MaxRollouts == 3

EXT == "metrics.csv"

\* the filenames given to the constructor, and what the file system says of them
Filenames == {"run.metrics.csv", "run", "logs"}
EndsWithExt(filename) == filename = "run.metrics.csv"
IsDir(filename) == filename = "logs"

\* os.path.join(filename, EXT) and filename + "." + EXT
JoinExt(filename) == IF filename = "logs" THEN "logs/metrics.csv" ELSE filename
DotExt(filename) == IF filename = "run" THEN "run.metrics.csv" ELSE filename

\* callbacks.py:18-23
ResolvePath(filename) ==
    IF ~EndsWithExt(filename)
    THEN IF IsDir(filename) THEN JoinExt(filename) ELSE DotExt(filename)
    ELSE filename

Paths == {ResolvePath(f) : f \in Filenames}
OldContents == {<<>>, << <<"stale">> >>}

\* callbacks.py:26-34
fieldnames == <<"timesteps", "ep_rew_mean", "ep_PE_mean", "exploration_rate",
                "loss", "n_updates", "learning_rate">>

\* csv.DictWriter.writeheader / writerow: one line, in fieldnames order
HeaderLine == [i \in DOMAIN fieldnames |-> fieldnames[i]]
RowLine(metrics) == [i \in DOMAIN fieldnames |-> metrics[fieldnames[i]]]

\* self.logger.name_to_value[key] as the host recorded it at this timestep
NameToValue(key) == [key |-> key, at |-> num_timesteps]

\* callbacks.py:42-50
Metrics ==
    [timesteps        |-> num_timesteps,
     ep_rew_mean      |-> NameToValue("rollout/ep_rew_mean"),
     ep_PE_mean       |-> NameToValue("rollout/ep_PE_mean"),
     exploration_rate |-> NameToValue("rollout/exploration_rate"),
     loss             |-> NameToValue("train/loss"),
     n_updates        |-> NameToValue("train/n_updates"),
     learning_rate    |-> NameToValue("train/learning_rate")]

NoFile == [path |-> "", closed |-> TRUE, buffer |-> <<>>]

\* the file system and the callback's handle: io = [fs, fh]
IO(files, fh) == [fs |-> files, fh |-> fh]

\* the file opened for appending
Open_Append(files, path) ==
    IO(files, [path |-> path, closed |-> FALSE, buffer |-> <<>>])

\* open(filename, "wt"): the file is created or truncated
Open(files, path) ==
    IO([files EXCEPT ![path] = <<>>], [path |-> path, closed |-> FALSE, buffer |-> <<>>])

\* a write goes to the handle's buffer
Write(io, line) == [io EXCEPT !.fh.buffer = Append(@, line)]

\* the flush left out
Flush_Missing(io) == io

\* flush moves the buffer to the disk
Flush(io) ==
    [io EXCEPT !.fs[io.fh.path] = @ \o io.fh.buffer, !.fh.buffer = <<>>]

\* close flushes and closes; closing a closed file does nothing
Close(io) ==
    IF io.fh.closed THEN io ELSE [Flush(io) EXCEPT !.fh.closed = TRUE]

\* callbacks.py:25-36: open, writeheader, flush
AfterInit(files, path) == Flush(Write(Open(files, path), HeaderLine))

\* callbacks.py:51-52: writerow, flush
AfterRolloutEnd(io, metrics) == Flush(Write(io, RowLine(metrics)))

\* MetricsCallback(filename)
MetricsCallbackInit(filename) ==
    /\ cb_status = "none"
    /\ cb_status' = "ok"
    /\ fs' = AfterInit(fs, ResolvePath(filename)).fs
    /\ file_handler' = AfterInit(fs, ResolvePath(filename)).fh
    /\ cb_ret' = NoneRet
    /\ UNCHANGED <<num_timesteps, rollout_log>>

\* the host counts a timestep, then calls _on_step, which returns True
OnStep ==
    /\ cb_status = "ok"
    /\ num_timesteps < MaxSteps
    /\ num_timesteps' = num_timesteps + 1
    /\ cb_ret' = [kind |-> "value", value |-> TRUE]
    /\ UNCHANGED <<cb_status, fs, file_handler, rollout_log>>

\* _on_rollout_end: writing to a closed file raises ValueError
OnRolloutEnd ==
    /\ cb_status = "ok"
    /\ Len(rollout_log) < MaxRollouts
    /\ rollout_log' = Append(rollout_log, [metrics |-> Metrics, closed |-> file_handler.closed])
    /\ IF file_handler.closed
       THEN /\ cb_ret' = Raise("ValueError")
            /\ UNCHANGED <<fs, file_handler>>
       ELSE /\ fs' = AfterRolloutEnd(IO(fs, file_handler), Metrics).fs
            /\ file_handler' = AfterRolloutEnd(IO(fs, file_handler), Metrics).fh
            /\ cb_ret' = NoneRet
    /\ UNCHANGED <<cb_status, num_timesteps>>

\* _on_training_end: self.file_handler.close()
OnTrainingEnd ==
    /\ cb_status = "ok"
    /\ fs' = Close(IO(fs, file_handler)).fs
    /\ file_handler' = Close(IO(fs, file_handler)).fh
    /\ cb_ret' = NoneRet
    /\ UNCHANGED <<cb_status, num_timesteps, rollout_log>>

CbIdle ==
    /\ cb_status = "none"
    /\ file_handler = NoFile
    /\ num_timesteps = 0
    /\ cb_ret = NoneRet
    /\ rollout_log = <<>>

CbInit ==
    /\ CbIdle
    /\ fs \in [Paths -> OldContents]

\* =========================================================== DQNPolicy
NumActions == 2
MaxUpdates == 1
MaskReplaceCoefDefault == -15

Actions == 0 .. (NumActions - 1)
QVals == {MaskReplaceCoefDefault - 1, 0}       \* Q-values a network may output
Coefs == {MaskReplaceCoefDefault, -1}          \* mask_replace_coef arguments

\* policies.py:137-142
network_aliases == {"CnnMlpNetwork1", "CnnMlpNetwork2", "CnnMlpNetwork3", "CnnMlpNetwork4"}

\* the network argument: a string, or a network class
Str(name) == [isstr |-> TRUE, name |-> name]
Class(name) == [isstr |-> FALSE, name |-> name]
NetworkArgs ==
    {Str(n) : n \in network_aliases \cup {"cnnmlpnetwork1", "MlpPolicy"}}
    \cup {Class(n) : n \in network_aliases \cup {"CustomNetwork"}}

\* names matched without regard to case
KnownNetworkName_AnyCase(network_name) ==
    network_name \in network_aliases \cup {"cnnmlpnetwork1"}

\* policies.py:196-206: the class of that name, or ValueError
KnownNetworkName(network_name) == network_name \in network_aliases
NetworkFromName(network_name) == Class(network_name)

\* policies.py:160-163
NetworkUnknown(network) == network.isstr /\ ~KnownNetworkName(network.name)
ResolvedNetwork(network) ==
    IF network.isstr THEN NetworkFromName(network.name) ELSE network

NoNet == [id |-> 0]
NoClass == [isstr |-> FALSE, name |-> ""]

\* make_q_net: a new QNetwork with its own freshly initialised parameters, in
\* training mode (torch.nn.Module's default)
MakeQNet(id, nc, coef) ==
    [id |-> id, network_class |-> nc, mask_replace_coef |-> coef,
     params |-> [init |-> id, updates |-> 0], training |-> TRUE]

\* load_state_dict(state_dict) and set_training_mode(mode) of a QNetwork
LoadStateDict(net, params) == [net EXCEPT !.params = params]
WithTrainingMode(net, mode) == [net EXCEPT !.training = mode]

\* policies.py:218-221
BuiltQNet(nc, coef) == MakeQNet(1, nc, coef)
BuiltQNetTarget(nc, coef) ==
    WithTrainingMode(LoadStateDict(MakeQNet(2, nc, coef), BuiltQNet(nc, coef).params), FALSE)

\* DQNPolicy(..., network, mask_replace_coef)
DQNPolicyInit(network, coef) ==
    /\ pol_status = "none"
    /\ IF NetworkUnknown(network)
       THEN /\ pol_status' = "ValueError"
            /\ pol_ret' = Raise("ValueError")
            /\ UNCHANGED <<network_class, mask_replace_coef, q_net, q_net_target,
                           optimizer, training>>
       ELSE /\ pol_status' = "ok"
            /\ network_class' = ResolvedNetwork(network)
            /\ mask_replace_coef' = coef
            /\ training' = TRUE
            /\ q_net' = BuiltQNet(ResolvedNetwork(network), coef)
            /\ q_net_target' = BuiltQNetTarget(ResolvedNetwork(network), coef)
            /\ optimizer' = BuiltQNet(ResolvedNetwork(network), coef).id
            /\ pol_ret' = NoneRet

\* the mode given to every sub-module of the policy, the target network too
SetTrainingMode_WholePolicy(mode) ==
    /\ pol_status = "ok"
    /\ pol_ret.kind = "none"
    /\ q_net' = WithTrainingMode(q_net, mode)
    /\ q_net_target' = WithTrainingMode(q_net_target, mode)
    /\ training' = mode
    /\ pol_ret' = NoneRet
    /\ UNCHANGED <<pol_status, network_class, mask_replace_coef, optimizer>>

\* DQNPolicy.set_training_mode(mode)
SetTrainingMode(mode) ==
    /\ pol_status = "ok"
    /\ pol_ret.kind = "none"
    /\ q_net' = WithTrainingMode(q_net, mode)
    /\ training' = mode
    /\ pol_ret' = NoneRet
    /\ UNCHANGED <<pol_status, network_class, mask_replace_coef, q_net_target, optimizer>>

\* the host's training step: the optimizer changes the parameters it was given
OptimizerStep ==
    /\ pol_status = "ok"
    /\ pol_ret.kind = "none"
    /\ q_net.params.updates < MaxUpdates
    /\ q_net' = IF optimizer = q_net.id
                 THEN [q_net EXCEPT !.params.updates = @ + 1] ELSE q_net
    /\ q_net_target' = IF optimizer = q_net_target.id
                        THEN [q_net_target EXCEPT !.params.updates = @ + 1] ELSE q_net_target
    /\ UNCHANGED <<pol_status, network_class, mask_replace_coef, optimizer, training, pol_ret>>

\* the greedy action taken over the raw Q-values (q_values.argmax)
MaskedQValues_Unmasked(q_values, mask, coef) == q_values

\* th.where(observation[MASK] == 1, q_values, self.mask_replace_coef)
MaskedQValues(q_values, mask, coef) ==
    [a \in DOMAIN q_values |-> IF mask[a] = 1 THEN q_values[a] ELSE coef]

\* argmax(dim=1): the first index of the maximum
ArgMax(v) ==
    CHOOSE a \in DOMAIN v :
        /\ \A b \in DOMAIN v : v[b] <= v[a]
        /\ \A b \in DOMAIN v : b < a => v[b] < v[a]

\* QNetwork._predict, given the Q-values its network outputs (policies.py:91-97)
QNetworkPredict(net, q_values, mask) ==
    ArgMax(MaskedQValues(q_values, mask, net.mask_replace_coef))

\* the network DQNPolicy._predict asks (policies.py:237-238)
PredictingNet == q_net

\* DQNPolicy.forward / DQNPolicy._predict on one observation; outputs[id] are the
\* Q-values network id computes for it: equal parameters give equal Q-values
Predict(outputs, mask) ==
    /\ pol_status = "ok"
    /\ pol_ret.kind = "none"
    /\ q_net.params = q_net_target.params => outputs[q_net.id] = outputs[q_net_target.id]
    /\ pol_ret' = [kind |-> "action", outputs |-> outputs, mask |-> mask,
                   action |-> QNetworkPredict(PredictingNet, outputs[PredictingNet.id], mask)]
    /\ UNCHANGED <<pol_status, network_class, mask_replace_coef, q_net, q_net_target,
                   optimizer, training>>

\* the caller takes the predicted action
TakeAction ==
    /\ pol_status = "ok"
    /\ pol_ret.kind = "action"
    /\ pol_ret' = NoneRet
    /\ UNCHANGED <<pol_status, network_class, mask_replace_coef, q_net, q_net_target,
                   optimizer, training>>

PolInit ==
    /\ pol_status = "none"
    /\ network_class = NoClass
    /\ mask_replace_coef = 0
    /\ q_net = NoNet
    /\ q_net_target = NoNet
    /\ optimizer = 0
    /\ training = FALSE
    /\ pol_ret = NoneRet

\* ==================================================================== claims
Max(a, b) == IF a >= b THEN a ELSE b

\* what the constructor's arguments make the capacity
CapacityOf(bs, ne) == Max(bs \div ne, 1)

Sampled == status = "ok" /\ ret.kind = "samples"

\* C1: in memory-optimized mode, whether the buffer is full or not, no slot
\* index that sample returns (or could draw) equals the write pointer pos
C1_WritePointerNotSampled ==
    (status = "ok" /\ optimize_memory_usage) =>
        /\ pos \notin SampleInds(cls, optimize_memory_usage, pos, full, buffer_size)
        /\ ret.kind = "samples" => \A j \in DOMAIN ret.batch_inds : ret.batch_inds[j] # pos

C1_Witness ==
    /\ Sampled /\ optimize_memory_usage /\ full
    /\ buffer_size = 2 /\ pos = 1
    /\ ret.batch_inds[1] = 0

\* C2: after k adds 0 <= pos < capacity and pos = k mod capacity, with
\* capacity = max(buffer_size // n_envs, 1), for both buffer classes; the add
\* that would move pos to capacity sets it to 0
C2_PosWrapsAtCapacity ==
    status = "ok" =>
        /\ buffer_size = CapacityOf(arg_buffer_size, n_envs)
        /\ 0 <= pos /\ pos < CapacityOf(arg_buffer_size, n_envs)
        /\ pos = nAdds % CapacityOf(arg_buffer_size, n_envs)

C2_Witness ==
    /\ status = "ok" /\ cls = "DictReplayBuffer"
    /\ arg_buffer_size = 3 /\ n_envs = 1
    /\ nAdds = 3 /\ pos = 0

\* the entry of the history for the add that last wrote slot i
LastWriteOf(n, i) ==
    /\ n \in DOMAIN log
    /\ log[n].slot = i
    /\ \A m \in DOMAIN log : m > n => log[m].slot # i

\* C3: with handle_timeout_termination, the terminal value returned for a
\* sampled (slot, env) is 1 exactly when the transition was added with done = 1
\* and its info did not carry TimeLimit.truncated = True (an absent key counts
\* as not truncated), and 0 otherwise
C3_TimeoutsExcludedFromTerminal ==
    (Sampled /\ handle_timeout_termination) =>
        \A j \in DOMAIN ret.data :
            \E n \in DOMAIN log :
                /\ LastWriteOf(n, ret.batch_inds[j])
                /\ ret.data[j].dones =
                      IF /\ log[n].done[ret.env_indices[j]] = 1
                         /\ log[n].infos[ret.env_indices[j]] # "True"
                      THEN 1 ELSE 0

C3_Witness ==
    /\ Sampled /\ handle_timeout_termination
    /\ \E n \in DOMAIN log :
          /\ LastWriteOf(n, ret.batch_inds[1])
          /\ log[n].done[ret.env_indices[1]] = 1
          /\ log[n].infos[ret.env_indices[1]] = "True"
          /\ ret.data[1].dones = 0

\* C4: ReplayBuffer(optimize_memory_usage=True, handle_timeout_termination=True)
\* raises ValueError and leaves no usable buffer; every other combination of the
\* two options constructs; handle_timeout_termination omitted counts as True
C4_ReplayBufferOptionCheck ==
    [][\A bs \in 1 .. MaxBufferSize, ne \in 1 .. MaxEnvs, omu \in BoolArgs, hto \in BoolArgs :
          ReplayBufferInit(bs, ne, omu, hto) =>
              IF omu = "True" /\ hto \in {"True", "omitted"}
              THEN /\ status' = "ValueError"
                   /\ ret' = Raise("ValueError")
                   /\ observations' = Unset /\ actions' = Unset /\ rewards' = Unset
                   /\ dones' = Unset /\ timeouts' = Unset /\ truth_masks' = Unset
              ELSE /\ status' = "ok"
                   /\ cls' = "ReplayBuffer"
                   /\ optimize_memory_usage' = (omu = "True")
                   /\ handle_timeout_termination' = (hto # "False")
                   /\ DOMAIN observations' = 0 .. (CapacityOf(bs, ne) - 1)]_vars

C4_Witness == status = "ValueError"

\* C5: DQNPolicy with a string network that is not one of CnnMlpNetwork1..4
\* raises ValueError before any Q-network or optimizer is built; a registered
\* alias resolves to the class of the same name; a network class is used as given
C5_UnknownNetworkAliasRejected ==
    [][\A network \in NetworkArgs, coef \in Coefs :
          DQNPolicyInit(network, coef) =>
              IF /\ network.isstr
                 /\ network.name \notin {"CnnMlpNetwork1", "CnnMlpNetwork2",
                                         "CnnMlpNetwork3", "CnnMlpNetwork4"}
              THEN /\ pol_status' = "ValueError"
                   /\ pol_ret' = Raise("ValueError")
                   /\ q_net' = NoNet /\ q_net_target' = NoNet /\ optimizer' = 0
              ELSE /\ pol_status' = "ok"
                   /\ network_class' = [isstr |-> FALSE, name |-> network.name]
                   /\ q_net'.network_class = network_class'
                   /\ q_net_target'.network_class = network_class']_vars

C5_Witness == pol_status = "ValueError" /\ q_net = NoNet /\ optimizer = 0


\* the lines of the metrics file on the disk
MetricsFile == fs[file_handler.path]

\* the line a rollout end writes: the seven metrics in the header's order
LineOf(m) == <<m.timesteps, m.ep_rew_mean, m.ep_PE_mean, m.exploration_rate,
               m.loss, m.n_updates, m.learning_rate>>
TheHeader == <<"timesteps", "ep_rew_mean", "ep_PE_mean", "exploration_rate",
               "loss", "n_updates", "learning_rate">>

RECURSIVE LinesOf(_)
LinesOf(entries) ==
    IF entries = <<>> THEN <<>>
    ELSE <<LineOf(Head(entries).metrics)>> \o LinesOf(Tail(entries))

RECURSIVE WhileOpen(_)
WhileOpen(entries) ==
    IF entries = <<>> THEN <<>>
    ELSE (IF Head(entries).closed THEN <<>> ELSE <<Head(entries)>>) \o WhileOpen(Tail(entries))

\* C6 as stated: after n rollout ends, whatever the events, the file holds the
\* header followed by the n rows in event order
C6_OneRowPerRolloutEnd_AsStated ==
    cb_status = "ok" => MetricsFile = <<TheHeader>> \o LinesOf(rollout_log)

\* C6 amended: the file holds the header, once and first, followed by one row
\* for every _on_rollout_end that found the file open, in event order, and
\* nothing else; an _on_rollout_end after the file is closed adds no row
C6_OneRowPerRolloutEndWhileOpen ==
    cb_status = "ok" => MetricsFile = <<TheHeader>> \o LinesOf(WhileOpen(rollout_log))

C6_Witness ==
    /\ cb_status = "ok"
    /\ Len(rollout_log) = 3
    /\ ~rollout_log[1].closed /\ ~rollout_log[2].closed /\ rollout_log[3].closed
    /\ rollout_log[1].metrics.timesteps < rollout_log[2].metrics.timesteps
    /\ Len(MetricsFile) = 3

\* C7: whenever __init__ or _on_rollout_end has returned nothing written is
\* left unflushed: the handle's buffer is empty and the disk holds the header
\* and every row written so far
C7_EveryWriteFlushed ==
    (cb_status = "ok" /\ cb_ret.kind # "raise") =>
        /\ file_handler.buffer = <<>>
        /\ Len(MetricsFile) = 1 + Len(WhileOpen(rollout_log))

C7_Witness ==
    /\ cb_status = "ok" /\ ~file_handler.closed
    /\ Len(rollout_log) = 2 /\ Len(MetricsFile) = 3
    /\ file_handler.buffer = <<>>

\* the shape of an array: its slots, and the environments of every slot
HasShape(a, bs, ne) ==
    /\ DOMAIN a = 0 .. (bs - 1)
    /\ \A i \in DOMAIN a : DOMAIN a[i] = 0 .. (ne - 1)

\* C8: every storage array keeps the number of slots (capacity) and of
\* environments it was allocated with, whatever the adds
C8_StorageNeverResized ==
    status = "ok" =>
        LET bs == CapacityOf(arg_buffer_size, n_envs) IN
        /\ IF cls = "DictReplayBuffer"
           THEN \A key \in ObsKeys : /\ HasShape(observations[key], bs, n_envs)
                                     /\ HasShape(next_observations[key], bs, n_envs)
           ELSE /\ HasShape(observations, bs, n_envs)
                /\ IF optimize_memory_usage THEN next_observations = Unset
                   ELSE HasShape(next_observations, bs, n_envs)
        /\ HasShape(actions, bs, n_envs)
        /\ HasShape(rewards, bs, n_envs)
        /\ HasShape(dones, bs, n_envs)
        /\ HasShape(timeouts, bs, n_envs)
        /\ HasShape(truth_masks, bs, n_envs)

C8_Witness ==
    /\ status = "ok" /\ cls = "ReplayBuffer" /\ optimize_memory_usage
    /\ buffer_size = 2 /\ nAdds = 2
    /\ observations[0][0].kind = "next_obs"

\* a value labelled as field kind of the k-th add for environment e
IsFrom(v, kind, k, e, key) == v = [kind |-> kind, k |-> k, e |-> e, key |-> key]

\* C9: every sampled element is one (slot, env) pair, env in 0..n_envs-1, slot
\* written by some add (slot < pos when not full, any slot when full, never pos
\* in memory-optimized mode), and its observation, action, reward, terminal and
\* truth mask all come from that slot and that environment
C9_SampleReadsOneStoredPair ==
    Sampled =>
        \A j \in DOMAIN ret.data :
            LET i == ret.batch_inds[j]
                e == ret.env_indices[j]
                d == ret.data[j]
            IN
            /\ e \in 0 .. (n_envs - 1)
            /\ i \in 0 .. (buffer_size - 1)
            /\ full \/ i < pos
            /\ optimize_memory_usage => i # pos
            /\ \E n \in DOMAIN log :
                  /\ LastWriteOf(n, i)
                  /\ IF cls = "DictReplayBuffer"
                     THEN \A key \in ObsKeys :
                              IsFrom(d.observations[key], "obs", log[n].k, e, key)
                     ELSE IsFrom(d.observations, "obs", log[n].k, e, NoKey)
                  /\ IsFrom(d.actions, "action", log[n].k, e, NoKey)
                  /\ IsFrom(d.rewards, "reward", log[n].k, e, NoKey)
                  /\ IsFrom(d.truth_masks, "truth_mask", log[n].k, e, NoKey)
                  /\ d.dones = log[n].done[e] * (1 - timeouts[i][e])
                  /\ d.dones = dones[i][e] * (1 - timeouts[i][e])

C9_Witness ==
    /\ Sampled /\ n_envs = 2 /\ full /\ nAdds > buffer_size
    /\ ret.env_indices[1] = 1
    /\ ret.data[1].truth_masks.e = 1

\* the number of slots that hold a transition
WrittenSlots == IF full THEN buffer_size ELSE pos

\* C10 as stated: the transitions held (written slots times n_envs) never
\* exceed the buffer_size given to the constructor
C10_HeldNeverExceedsBufferSize ==
    status = "ok" => WrittenSlots * n_envs <= arg_buffer_size

\* a storage array of the dict buffer with the key of its labels dropped
Unkeyed(arr) ==
    [s \in DOMAIN arr |-> [e \in DOMAIN arr[s] |-> [arr[s][e] EXCEPT !.key = NoKey]]]

\* every written entry of the array stored under key carries that key
KeyedBy(arr, key) ==
    \A s \in DOMAIN arr : \A e \in DOMAIN arr[s] : arr[s][e] = Zero \/ arr[s][e].key = key

HoldsAdd(i, k, done) ==
    \A e \in Envs :
        /\ IF cls = "DictReplayBuffer"
           THEN \A key \in ObsKeys :
                    /\ IsFrom(observations[key][i][e], "obs", k, e, key)
                    /\ IsFrom(next_observations[key][i][e], "next_obs", k, e, key)
           ELSE /\ IsFrom(observations[i][e], "obs", k, e, NoKey)
                /\ IsFrom(next_observations[i][e], "next_obs", k, e, NoKey)
        /\ IsFrom(actions[i][e], "action", k, e, NoKey)
        /\ IsFrom(rewards[i][e], "reward", k, e, NoKey)
        /\ IsFrom(truth_masks[i][e], "truth_mask", k, e, NoKey)
        /\ dones[i][e] = done[e]

\* C12: without memory optimization, after k adds the written slots are
\* min(k, capacity) in number and hold exactly the min(k, capacity) most recent
\* adds, one per slot: observation, next observation, action, reward, done and
\* truth mask of every environment are those given to that add; once full the
\* slot the next add writes holds the oldest of them
C12_HoldsMostRecentTransitions ==
    (status = "ok" /\ ~optimize_memory_usage) =>
        LET held == IF nAdds < CapacityOf(arg_buffer_size, n_envs)
                    THEN nAdds ELSE CapacityOf(arg_buffer_size, n_envs)
        IN
        /\ WrittenSlots = held
        /\ Len(log) = held
        /\ \A n \in DOMAIN log :
              /\ log[n].k = nAdds - held + n
              /\ LastWriteOf(n, log[n].slot)
              /\ full \/ log[n].slot < pos
              /\ HoldsAdd(log[n].slot, log[n].k, log[n].done)
        /\ full => log[1].slot = pos

C12_Witness ==
    /\ status = "ok" /\ ~optimize_memory_usage /\ cls = "ReplayBuffer"
    /\ buffer_size = 2 /\ nAdds = 3 /\ pos = 1
    /\ log[1].k = 2 /\ log[1].slot = 1
    /\ next_observations[0][0].k = 3 /\ next_observations[1][0].k = 2

\* C13: in memory-optimized mode every sampled element has the observation,
\* action and reward of the add that last wrote its slot, and its next
\* observation, read from the following slot of observations, is that add's
\* next_obs or the obs of the add right after it, never older data
C13_OptimizedSampleNeverStale ==
    (Sampled /\ optimize_memory_usage) =>
        \A j \in DOMAIN ret.data :
            LET i == ret.batch_inds[j]
                e == ret.env_indices[j]
                d == ret.data[j]
            IN
            \E n \in DOMAIN log :
                /\ LastWriteOf(n, i)
                /\ IsFrom(d.actions, "action", log[n].k, e, NoKey)
                /\ IsFrom(d.rewards, "reward", log[n].k, e, NoKey)
                /\ IsFrom(d.observations, "obs", log[n].k, e, NoKey)
                /\ d.next_observations = observations[(i + 1) % buffer_size][e]
                /\ \/ IsFrom(d.next_observations, "next_obs", log[n].k, e, NoKey)
                   \/ IsFrom(d.next_observations, "obs", log[n].k + 1, e, NoKey)

C13_Witness ==
    /\ Sampled /\ optimize_memory_usage /\ full
    /\ buffer_size = 3 /\ nAdds = 3 /\ pos = 0
    /\ ret.batch_inds[1] = 1
    /\ ret.data[1].observations.k = 2
    /\ ret.data[1].next_observations.kind = "obs"
    /\ ret.data[1].next_observations.k = 3
    /\ observations[0][0].kind = "next_obs" /\ observations[0][0].k = 3

\* C14: in memory-optimized mode the slots sample can return are 0..pos-1
\* when not full and the capacity-1 slots other than pos when full; the set is
\* empty exactly when no add was made or capacity is 1, and then sample raises
\* instead of returning
C14_OptimizedSampleableSlots ==
    (status = "ok" /\ optimize_memory_usage) =>
        LET cap == CapacityOf(arg_buffer_size, n_envs)
            sampleable == IF full THEN (0 .. (cap - 1)) \ {pos} ELSE 0 .. (pos - 1)
        IN
        /\ SampleInds(cls, optimize_memory_usage, pos, full, buffer_size) = sampleable
        /\ Cardinality(sampleable) = IF full THEN cap - 1 ELSE pos
        /\ (sampleable = {}) <=> (nAdds = 0 \/ cap = 1)
        /\ ret.kind = "samples" =>
              /\ sampleable # {}
              /\ \A j \in DOMAIN ret.batch_inds : ret.batch_inds[j] \in sampleable
        /\ ret.kind = "raise" => sampleable = {}
        /\ ret.kind = "raise" => ret.exc = "ValueError"

C14_Witness ==
    /\ status = "ok" /\ optimize_memory_usage
    /\ buffer_size = 1 /\ nAdds = 2 /\ full
    /\ ret.kind = "raise"

\* C15: full is false at construction and, for both buffer classes, holds
\* exactly when at least capacity adds have been made: it turns true at the add
\* that wraps pos to 0 and stays true after every later add
C15_FullIffCapacityAdds ==
    /\ status = "ok" =>
          (full <=> nAdds >= CapacityOf(arg_buffer_size, n_envs))
    /\ (status = "ok" /\ nAdds = CapacityOf(arg_buffer_size, n_envs)) => pos = 0
    /\ status # "ok" => ~full

C15_Witness ==
    /\ status = "ok" /\ full
    /\ buffer_size = 2 /\ nAdds = 3 /\ pos = 1

\* the array has the slots it had, and those outside touched are as they were
SameExcept(new, old, touched) ==
    /\ DOMAIN new = DOMAIN old
    /\ \A s \in DOMAIN old : s \notin touched => new[s] = old[s]

\* C16: one add changes, in every storage array, only the entries at index pos
\* (as the call found it); in memory-optimized mode it also writes
\* observations[(pos + 1) mod capacity], and nothing else
C16_AddWritesOnlyAtPos ==
    [][(status = "ok" /\ nAdds' = nAdds + 1) =>
          /\ SameExcept(actions', actions, {pos})
          /\ SameExcept(rewards', rewards, {pos})
          /\ SameExcept(dones', dones, {pos})
          /\ SameExcept(timeouts', timeouts, {pos})
          /\ SameExcept(truth_masks', truth_masks, {pos})
          /\ IF cls = "DictReplayBuffer"
             THEN \A key \in ObsKeys :
                      /\ SameExcept(observations'[key], observations[key], {pos})
                      /\ SameExcept(next_observations'[key], next_observations[key], {pos})
             ELSE IF optimize_memory_usage
             THEN /\ SameExcept(observations', observations,
                                {pos, (pos + 1) % CapacityOf(arg_buffer_size, n_envs)})
                  /\ next_observations' = next_observations
             ELSE /\ SameExcept(observations', observations, {pos})
                  /\ SameExcept(next_observations', next_observations, {pos})
      ]_vars

C16_Witness ==
    /\ status = "ok" /\ cls = "ReplayBuffer" /\ optimize_memory_usage
    /\ buffer_size = 3 /\ nAdds = 2 /\ pos = 2
    /\ observations[0][0].k = 1 /\ observations[1][0].kind = "obs"
    /\ observations[1][0].k = 2 /\ observations[2][0].kind = "next_obs"
    /\ actions[0][0].k = 1 /\ actions[1][0].k = 2 /\ actions[2][0] = Zero

\* C17: a sample call, whether it returns a batch or raises, in either mode
\* and for either class, leaves pos, full and every storage array (and the
\* configuration of the buffer) as they were
C17_SampleReadOnly ==
    [][(status = "ok" /\ ret.kind = "none" /\ ret'.kind \in {"samples", "raise"}) =>
          UNCHANGED <<status, cls, buffer_size, n_envs, optimize_memory_usage,
                      handle_timeout_termination, pos, full, observations,
                      next_observations, actions, rewards, dones, timeouts,
                      truth_masks>>
      ]_vars

C17_Witness ==
    /\ Sampled /\ handle_timeout_termination
    /\ dones[ret.batch_inds[1]][ret.env_indices[1]] = 1
    /\ timeouts[ret.batch_inds[1]][ret.env_indices[1]] = 1
    /\ ret.data[1].dones = 0

\* C18: with handle_timeout_termination False the timeouts array stays all
\* zero whatever the infos of the adds, and every sampled terminal value is the
\* done value given to the add that wrote the slot
C18_NoTimeoutMaskingWhenDisabled ==
    (status = "ok" /\ ~handle_timeout_termination) =>
        /\ \A s \in DOMAIN timeouts : \A e \in DOMAIN timeouts[s] : timeouts[s][e] = 0
        /\ ret.kind = "samples" =>
              \A j \in DOMAIN ret.data :
                  \E n \in DOMAIN log :
                      /\ LastWriteOf(n, ret.batch_inds[j])
                      /\ ret.data[j].dones = log[n].done[ret.env_indices[j]]

C18_Witness ==
    /\ Sampled /\ ~handle_timeout_termination
    /\ \E n \in DOMAIN log :
          /\ LastWriteOf(n, ret.batch_inds[1])
          /\ log[n].infos[ret.env_indices[1]] = "True"
          /\ log[n].done[ret.env_indices[1]] = 1
    /\ ret.data[1].dones = 1

\* C19: DictReplayBuffer(optimize_memory_usage=True) fails with an assertion
\* error whatever handle_timeout_termination is, and leaves no buffer; with
\* optimize_memory_usage False or omitted it constructs for every value of
\* handle_timeout_termination; a constructed DictReplayBuffer always has
\* optimize_memory_usage False and a next_observations array under every key
C19_DictBufferNeverMemoryOptimized ==
    [][/\ \A bs \in 1 .. MaxBufferSize, ne \in 1 .. MaxEnvs, omu \in BoolArgs, hto \in BoolArgs :
             DictReplayBufferInit(bs, ne, omu, hto) =>
                 IF omu = "True"
                 THEN /\ status' = "AssertionError"
                      /\ ret' = Raise("AssertionError")
                      /\ observations' = Unset /\ next_observations' = Unset
                 ELSE /\ status' = "ok"
                      /\ cls' = "DictReplayBuffer"
                      /\ handle_timeout_termination' = (hto # "False")
       /\ (status' = "ok" /\ cls' = "DictReplayBuffer") =>
             /\ ~optimize_memory_usage'
             /\ DOMAIN observations' = ObsKeys
             /\ DOMAIN next_observations' = ObsKeys
             /\ \A key \in ObsKeys :
                   HasShape(next_observations'[key], CapacityOf(arg_buffer_size', n_envs'), n_envs')
      ]_vars

C19_Witness ==
    /\ status = "AssertionError"
    /\ ret = Raise("AssertionError")
    /\ next_observations = Unset

\* C20: the action DQNPolicy.forward / _predict returns is an index of the
\* maximum of the vector whose entry a is the online q_net's Q-value of a when
\* mask[a] = 1 and mask_replace_coef otherwise; the target network's Q-values
\* play no part
C20_GreedyOverMaskedQValues ==
    (pol_status = "ok" /\ pol_ret.kind = "action") =>
        LET q == pol_ret.outputs[q_net.id]
            v == [a \in Actions |->
                     IF pol_ret.mask[a] = 1 THEN q[a] ELSE mask_replace_coef]
        IN
        /\ q_net.id # q_net_target.id
        /\ q_net.mask_replace_coef = mask_replace_coef
        /\ pol_ret.action \in Actions
        /\ \A b \in Actions : v[b] <= v[pol_ret.action]

C20_Witness ==
    /\ pol_status = "ok" /\ pol_ret.kind = "action"
    /\ mask_replace_coef = MaskReplaceCoefDefault
    /\ q_net.params # q_net_target.params
    /\ pol_ret.mask = [a \in Actions |-> IF a = 0 THEN 0 ELSE 1]
    /\ pol_ret.outputs[q_net.id] = [a \in Actions |-> 0]
    /\ pol_ret.outputs[q_net_target.id] =
          [a \in Actions |-> IF a = 0 THEN 0 ELSE MaskReplaceCoefDefault - 1]
    /\ pol_ret.action = 1

\* C21 as stated: whenever the mask marks at least one action legal, the
\* action returned has mask entry 1, whatever the Q-values are, legal Q-values
\* below mask_replace_coef included
C21_PredictReturnsLegalAction ==
    (/\ pol_status = "ok"
     /\ pol_ret.kind = "action"
     /\ \E a \in Actions : pol_ret.mask[a] = 1) =>
        pol_ret.mask[pol_ret.action] = 1

\* C22: _build leaves a target network that is a network of its own, with
\* parameters equal to those of q_net and in evaluation mode; every
\* set_training_mode(mode) afterwards gives mode to q_net and to the training
\* flag of the policy and leaves the target network as it was, so the target
\* network is in evaluation mode in every state; the optimizer, built over the
\* parameters of q_net, never changes those of the target network
C22_TargetNetworkSeparateAndInEval ==
    [][/\ \A network \in NetworkArgs, coef \in Coefs :
             (DQNPolicyInit(network, coef) /\ pol_status' = "ok") =>
                 /\ q_net_target'.id # q_net'.id
                 /\ q_net_target'.params = q_net'.params
                 /\ q_net_target'.network_class = q_net'.network_class
                 /\ ~q_net_target'.training
                 /\ optimizer' = q_net'.id
       /\ \A mode \in BOOLEAN :
             SetTrainingMode(mode) =>
                 /\ q_net'.training = mode
                 /\ training' = mode
                 /\ q_net'.params = q_net.params
                 /\ q_net_target' = q_net_target
       /\ pol_status = "ok" => q_net_target'.params = q_net_target.params
       /\ pol_status' = "ok" =>
             /\ ~q_net_target'.training
             /\ q_net_target'.id # q_net'.id
      ]_vars

C22_Witness ==
    /\ pol_status = "ok"
    /\ ~training /\ ~q_net.training /\ ~q_net_target.training
    /\ q_net.params.updates = 1
    /\ q_net_target.params.updates = 0
    /\ q_net_target.params.init = q_net.params.init

\* ============================================================ specifications
\* the replay buffers alone
InitBuffer == BufInit /\ CbIdle /\ fs = [p \in Paths |-> <<>>] /\ PolInit
NextBuffer ==
    \/ \E bs \in 1 .. MaxBufferSize, ne \in 1 .. MaxEnvs, omu \in BoolArgs, hto \in BoolArgs :
          ReplayBufferInit(bs, ne, omu, hto) /\ UNCHANGED <<pairVars, cbVars, polVars>>
    \/ \E bs \in 1 .. MaxBufferSize, ne \in 1 .. MaxEnvs, omu \in BoolArgs, hto \in BoolArgs :
          DictReplayBufferInit(bs, ne, omu, hto) /\ UNCHANGED <<pairVars, cbVars, polVars>>
    \/ \E done \in [Envs -> {0, 1}], c \in InfoChoices :
          ReplayBufferAdd(done, InfosOf(c, n_envs)) /\ UNCHANGED <<pairVars, cbVars, polVars>>
    \/ \E done \in [Envs -> {0, 1}], c \in InfoChoices :
          DictReplayBufferAdd(done, InfosOf(c, n_envs)) /\ UNCHANGED <<pairVars, cbVars, polVars>>
    \/ \E batch_size \in 1 .. MaxBatch : Sample(batch_size) /\ UNCHANGED <<pairVars, cbVars, polVars>>
    \/ TakeResult /\ UNCHANGED <<pairVars, cbVars, polVars>>
SpecBuffer == InitBuffer /\ [][NextBuffer]_vars

\* a DictReplayBuffer and a plain ReplayBuffer given the same adds
InitPair == BufInit /\ CbIdle /\ fs = [p \in Paths |-> <<>>] /\ PolInit
NextPair ==
    \/ \E bs \in 1 .. MaxBufferSize, ne \in 1 .. MaxEnvs, hto \in BoolArgs :
          PairInit(bs, ne, hto) /\ UNCHANGED <<cbVars, polVars>>
    \/ \E done \in [Envs -> {0, 1}], c \in InfoChoices :
          PairAdd(done, InfosOf(c, n_envs)) /\ UNCHANGED <<cbVars, polVars>>
SpecPair == InitPair /\ [][NextPair]_vars

\* the metrics callback alone
InitMetrics == BufInit /\ CbInit /\ PolInit
NextMetrics ==
    \/ \E filename \in Filenames : MetricsCallbackInit(filename) /\ UNCHANGED <<bufVars, pairVars, polVars>>
    \/ OnStep /\ UNCHANGED <<bufVars, pairVars, polVars>>
    \/ OnRolloutEnd /\ UNCHANGED <<bufVars, pairVars, polVars>>
    \/ OnTrainingEnd /\ UNCHANGED <<bufVars, pairVars, polVars>>
SpecMetrics == InitMetrics /\ [][NextMetrics]_vars

\* the policy alone
InitPolicy == BufInit /\ CbIdle /\ fs = [p \in Paths |-> <<>>] /\ PolInit
NextPolicy ==
    \/ \E network \in NetworkArgs, coef \in Coefs :
          DQNPolicyInit(network, coef) /\ UNCHANGED <<bufVars, pairVars, cbVars>>
    \/ \E mode \in BOOLEAN : SetTrainingMode(mode) /\ UNCHANGED <<bufVars, pairVars, cbVars>>
    \/ OptimizerStep /\ UNCHANGED <<bufVars, pairVars, cbVars>>
    \/ \E outputs \in [1 .. 2 -> [Actions -> QVals]], mask \in [Actions -> {0, 1}] :
          Predict(outputs, mask) /\ UNCHANGED <<bufVars, pairVars, cbVars>>
    \/ TakeAction /\ UNCHANGED <<bufVars, pairVars, cbVars>>
SpecPolicy == InitPolicy /\ [][NextPolicy]_vars

=============================================================================
